---------------------------- MODULE Spec2Model ----------------------------
(***************************************************************************)
(* Model of the ANVIL membrane-topology computation,                       *)
(* src/src/mol-model-props/computed/topology/ANVIL.ts.                     *)
(*                                                                         *)
(* Geometry.  generateSpherePoints places point k (1..N) at polar height   *)
(* h = -1 + 2(k-1)/(N-1) on the y axis, so an axis candidate is modelled   *)
(* by the exact fraction h = hn/hd.  Structures are taken with all         *)
(* residues on the line through the centroid parallel to y, hence the      *)
(* signed projection of a residue on the diameter of an axis candidate is  *)
(*     extent - h * (y - centroid_y)                                       *)
(* whatever the azimuth phi of the candidate.  Lengths are exact rationals *)
(* (the code's doubles are read as reals); they are stored multiplied by   *)
(* LenScale = 5 * (number of residues), which makes centroid (a mean) and  *)
(* extent (1.2 = 6/5 times the radius) integers.  Hydrophobic/hydrophilic  *)
(* statistics are stored in tenths, which holds the 0.5 weights and the    *)
(* 0.1 floor exactly.  A score is the exact fraction n/d; d = 0 is the     *)
(* double NaN (n = 0) or an infinity (n # 0).                              *)
(***************************************************************************)
EXTENDS Integers, Sequences, FiniteSets

\* ------------------------------------------------------------------ bounds

\* Largest y coordinate of an atom and largest number of atoms of a structure.
MaxCoord == 6
MaxAtoms == 2
\* Size of the dense sample of findProximateAxes (30000 in the code).
ProximateSampleSize == 4
\* Cap on the slice loop, which does not end when stepSize <= 0.
MaxSlices == 16
\* Largest hashCode of a structure or of a unit symmetry group, largest
\* number of groups of a structure, and number of calls made on a
\* UnitsRepresentation.
MaxHash == 2
MaxGroups == 2
MaxCalls == 3

\* --------------------------------------------------------------- utilities

Abs(x) == IF x < 0 THEN -x ELSE x
Min(a, b) == IF a < b THEN a ELSE b
Max(a, b) == IF a > b THEN a ELSE b
Sign(x) == IF x > 0 THEN 1 ELSE IF x < 0 THEN -1 ELSE 0

RECURSIVE SumSeq(_)
SumSeq(s) == IF s = <<>> THEN 0 ELSE Head(s) + SumSeq(Tail(s))

\* The numbers of the statistics are kept in tenths.
Tenths(n) == 10 * n

RECURSIVE Gcd(_, _)
Gcd(a, b) == IF b = 0 THEN a ELSE Gcd(b, a % b)
\* The fraction n/d in lowest terms, the sign of d kept: equal quotients are
\* the same double.
Fraction(n, d) ==
    IF d = 0 THEN [n |-> Sign(n), d |-> 0]
    ELSE LET g == Gcd(Abs(n), Abs(d)) IN [n |-> n \div g, d |-> d \div g]

\* A score n/d as a double: NaN, or compared as a real.
IsNaN(q) == q.d = 0 /\ q.n = 0
IsFinite(q) == q.d # 0
Zero == [n |-> 0, d |-> 1]
\* a > b on doubles: FALSE when either is NaN.
Gt(a, b) ==
    IF IsNaN(a) \/ IsNaN(b) THEN FALSE
    ELSE IF ~IsFinite(a) THEN a.n > 0 /\ ~(~IsFinite(b) /\ b.n > 0)
    ELSE IF ~IsFinite(b) THEN b.n < 0
    ELSE a.n * b.d * Sign(a.d) * Sign(b.d) > b.n * a.d * Sign(a.d) * Sign(b.d)
SameScore(a, b) ==
    IF IsFinite(a) /\ IsFinite(b) THEN a.n * b.d = b.n * a.d
    ELSE ~IsFinite(a) /\ ~IsFinite(b) /\ Sign(a.n) = Sign(b.n)

\* ------------------------------------------------------------------ inputs

\* An atom: ca = a protein alpha-carbon (the only atoms calculate keeps),
\* y its coordinate, hydrophobic = its residue name is one of
\* HYDROPHOBIC_AMINO_ACIDS, exposed = its accessible surface area > afilter.
OtherAtom == [ca |-> FALSE, y |-> 0, hydrophobic |-> FALSE, exposed |-> FALSE]
CaAtoms ==
    { a \in [ca : {TRUE}, y : 0..MaxCoord, hydrophobic : BOOLEAN, exposed : BOOLEAN] :
        a.hydrophobic => a.exposed }
Atoms == {OtherAtom} \cup CaAtoms

\* The scan reads the atoms only through counts, sums and maxima, and the
\* coordinates only relative to the centroid: structures are enumerated up to
\* the order of their atoms and up to translation (the class of a buried
\* residue is never read, it is fixed to hydrophilic).
Rank(a) ==
    IF ~a.ca THEN 0
    ELSE 1 + 3 * a.y + (IF a.hydrophobic THEN 2 ELSE IF a.exposed THEN 1 ELSE 0)
Structures ==
    UNION { { s \in [1..n -> Atoms] :
                /\ \A k \in 1..(n - 1) : Rank(s[k]) <= Rank(s[k + 1])
                /\ (\E k \in 1..n : s[k].ca) => (\E k \in 1..n : s[k].ca /\ s[k].y = 0) }
            : n \in 0..MaxAtoms }

\* Configurations the documentation calls valid, and configurations with one
\* value it calls invalid.
DefaultParams ==
    [numberOfSpherePoints |-> 3, stepSize |-> 1, minThickness |-> 2, maxThickness |-> 5]
ValidParams ==
    [numberOfSpherePoints : {2, 3}, stepSize : {1, 2},
     minThickness : {2, 3}, maxThickness : {5}]
InvalidParams ==
    { [DefaultParams EXCEPT !.stepSize = 0],
      [DefaultParams EXCEPT !.stepSize = -1],
      [DefaultParams EXCEPT !.minThickness = 5],
      [DefaultParams EXCEPT !.minThickness = 6],
      [DefaultParams EXCEPT !.numberOfSpherePoints = 0],
      [DefaultParams EXCEPT !.numberOfSpherePoints = 1] }
\* More axis candidates asked for than the dense sample holds.
LargeParams ==
    { [DefaultParams EXCEPT !.numberOfSpherePoints = ProximateSampleSize + 1] }
ParamSets == ValidParams \cup InvalidParams \cup LargeParams

BadConfig(p) ==
    \/ p.minThickness >= p.maxThickness
    \/ p.stepSize <= 0
    \/ p.numberOfSpherePoints < 2

\* ------------------------------------------------------------------- state

VARIABLES
    structure,            \* the input structure
    params,               \* the ANVILProps
    pc,                   \* position in compute/calculate/findMembrane
    outcome,              \* how the task ended: "running", "Topology", "TypeError"
    offsets,              \* indices of the kept atoms (offsets, exposed of calculate)
    initialStats,         \* initialHphobHphil, shared by both findMembrane calls
    pass,                 \* "initial" or "alternative" findMembrane call
    spherePoints,         \* the axis candidates of the current call
    axis,                 \* outer loop index i of findMembrane, from 1
    qvartemp,             \* the slices of the current axis
    t,                    \* slice loop offset i, times LenScale
    jmax,                 \* jmax, times stepSize
    width,                \* width, as the loop test of line 212 reads it
    win,                  \* window loop index i, from 0
    qmax,                 \* score of the best performing membrane
    membrane,             \* best performing membrane, or Undefined
    initialMembrane,
    alternativeMembrane,
    result,               \* the membrane handed to createMembraneLayers
    scored,               \* history: the windows the current call has scored
    positiveSeen,         \* history: some window of either call scored above 0
    jOffset,              \* j of findProximateAxes, times 5
    sphere_pts2,          \* sphere_pts2 of findProximateAxes
    cancelRequested,      \* the caller has asked the runtime to abort the task
    axisAfterCancel       \* history: an axis candidate was begun after that

anvilVars ==
    << structure, params, pc, outcome, offsets, initialStats, pass, spherePoints,
       axis, qvartemp, t, jmax, width, win, qmax, membrane, initialMembrane,
       alternativeMembrane, result, scored, positiveSeen, jOffset, sphere_pts2,
       cancelRequested, axisAfterCancel >>

\* The state of a UnitsRepresentation,
\* src/src/mol-geo/representation/structure/units-representation.ts.
VARIABLES
    visuals,              \* the Map from group.hashCode to { group, visual }
    _structure,           \* the structure of the last completed update
    _groups,              \* unitSymmetryGroups of the structure being applied
    newStructure,         \* the structure argument of the running task
    oldVisuals,           \* oldVisuals of the running task
    upc,                  \* position of the running task: "idle", "loop", "await"
    groupIndex,           \* loop index i of the running task, from 1
    awaited,              \* the visual whose createOrUpdate the task awaits, or 0
    detached,             \* visual updates started and not awaited
    destroyed,            \* number of destroy calls each visual has received
    nextVisual,           \* the visual the next visualCtor() returns
    task,                 \* state of the task created last; "none" after destroy()
    branch,               \* the branch that task took
    calls,                \* number of createOrUpdate and destroy calls made
    unreported,           \* history: calls with a failed update nobody awaited
    before                \* history: visuals and nextVisual when the task began

unitsVars ==
    << visuals, _structure, _groups, newStructure, oldVisuals, upc, groupIndex,
       awaited, detached, destroyed, nextVisual, task, branch, calls, unreported,
       before >>

vars == << anvilVars, unitsVars >>

Undefined == [undefined |-> TRUE]
\* centroidHelper.center; the coordinates are read relative to it.
centroid == [centroid |-> TRUE]


\* A structure as UnitsRepresentation reads it: its hashCode and its
\* unitSymmetryGroups, each group with its hashCode.
NoStructure == [hashCode |-> 0, unitSymmetryGroups |-> <<>>]
GroupsOf(h, hashes) ==
    [k \in 1..Len(hashes) |-> [hashCode |-> hashes[k], structure |-> h, index |-> k]]
UnitStructures ==
    { [hashCode |-> h, unitSymmetryGroups |-> GroupsOf(h, hashes)] :
        h \in 1..MaxHash,
        hashes \in UNION { [1..n -> 1..MaxHash] : n \in 0..MaxGroups } }
Visuals == 1..(MaxCalls * MaxGroups)

\* new Map(), Map.set, Map.delete and the values of a Map.
EmptyMap == [h \in {} |-> 0]
MapSet(m, h, e) == [x \in (DOMAIN m) \cup {h} |-> IF x = h THEN e ELSE m[x]]
MapDelete(m, h) == [x \in (DOMAIN m) \ {h} |-> m[x]]
VisualsOf(m) == { m[h].visual : h \in DOMAIN m }

\* A UnitsRepresentation as UnitsRepresentation() returns it.
UnitsConstructed ==
    /\ visuals = EmptyMap
    /\ _structure = NoStructure
    /\ _groups = <<>>
    /\ newStructure = NoStructure
    /\ oldVisuals = EmptyMap
    /\ upc = "idle"
    /\ groupIndex = 1
    /\ awaited = 0
    /\ detached = {}
    /\ destroyed = [v \in Visuals |-> 0]
    /\ nextVisual = 1
    /\ task = "none"
    /\ branch = "none"
    /\ calls = 0
    /\ unreported = {}
    /\ before = [visuals |-> EmptyMap, nextVisual |-> 1]

\* ---------------------------------------------------------------- geometry

Count == Len(offsets)
\* Lengths are multiplied by LenScale.
LenScale == 5 * (IF Count = 0 THEN 1 ELSE Count)
StepLen == LenScale * params.stepSize
\* Count * (y - centroid_y) of kept atom k: the centroid is the mean.
Dev(k) == Count * structure[offsets[k]].y - SumSeq([j \in 1..Count |-> structure[offsets[j]].y])
RECURSIVE MaxDev(_)
\* Count * sqrt(radiusSq): the largest distance from the centroid.
MaxDev(k) == IF k = 0 THEN 0 ELSE Max(Abs(Dev(k)), MaxDev(k - 1))
extent == 6 * MaxDev(Count)

\* An axis candidate h = hn/hd; hd = 0 is the NaN point of N = 1.
IsNaNPoint(p) == p.hd = 0
diamNorm(p) == 2 * extent

generateSpherePoints(N) ==
    [k \in 1..N |-> [hn |-> 2 * (k - 1) - (N - 1), hd |-> N - 1]]

\* let j = 4, in fifths.
FirstJ == 20
\* squaredDistance(points[i], centroid) < dsq, d = 2 * extent / N + j: every
\* sample point lies at distance extent of the centroid, and d > 0.
WithinThreshold(N) == 5 * N * extent < 10 * extent + jOffset * N * LenScale
\* The for loop of findProximateAxes: the points of the sample within the
\* threshold.
findProximateAxes(N) ==
    IF WithinThreshold(N) THEN generateSpherePoints(ProximateSampleSize) ELSE <<>>

\* The test with the boundaries included.
isInMembranePlaneClosed(k, p, t1, t2) ==
    LET d == p.hd * extent - p.hn * 5 * Dev(k)
    IN  p.hd * Min(t1, t2) <= d /\ d <= p.hd * Max(t1, t2)

\* d of kept atom k strictly between d1 and d2, for plane points at offsets
\* t1 and t2 of the diameter of axis candidate p (all times p.hd).
isInMembranePlane(k, p, t1, t2) ==
    LET d == p.hd * extent - p.hn * 5 * Dev(k)
    IN  p.hd * Min(t1, t2) < d /\ d < p.hd * Max(t1, t2)

\* -------------------------------------------------------------- statistics

HphobHphilOf(hphob, hphil, total) ==
    [hphob |-> hphob, hphil |-> hphil,
     total |-> IF total # 0 THEN total ELSE hphob + hphil]

\* keep is the set of kept atoms the filter lets pass; buried residues are
\* ignored.
filtered(keep) ==
    LET counted == { k \in 1..Count : structure[offsets[k]].exposed /\ k \in keep }
        hphob == Cardinality({ k \in counted : structure[offsets[k]].hydrophobic })
        hphil == Cardinality({ k \in counted : ~structure[offsets[k]].hydrophobic })
    IN  HphobHphilOf(Tenths(hphob), Tenths(hphil), 0)

NoFilter == 1..Count

MembraneInitial(c1, c2, stats) ==
    [planePoint1 |-> c1, planePoint2 |-> c2, stats |-> stats]

\* The slice built at offset t of the diameter of axis candidate p; a plane
\* point is held as its offset along the diameter.
Slice(p) ==
    MembraneInitial(t, t + StepLen,
                    filtered({ k \in 1..Count : isInMembranePlane(k, p, t, t + StepLen) }))

\* What qValue leaves in initialStats (lines 254-260).
FloorAdjusted(s) ==
    LET a == IF s.hphob < Tenths(1) THEN [s EXCEPT !.hphob = 1] ELSE s
    IN  IF a.hphil < Tenths(1) THEN [a EXCEPT !.hphil = a.hphil + Tenths(1)] ELSE a

\* qValue with the window's total field read as part_tot.
qValueOfTotalField(currentStats, g) ==
    LET tot == g.hphob + g.hphil
        part_tot == currentStats.total
    IN  Fraction(100 * (currentStats.hphob * (g.hphil - currentStats.hphil)
                        - currentStats.hphil * (g.hphob - currentStats.hphob)),
                 part_tot * g.hphob * g.hphil * (tot - part_tot))

\* The value qValue returns, g being initialStats after the adjustments.
qValue(currentStats, g) ==
    LET tot == g.hphob + g.hphil
        part_tot == currentStats.hphob + currentStats.hphil
    IN  Fraction(100 * (currentStats.hphob * (g.hphil - currentStats.hphil)
                        - currentStats.hphil * (g.hphob - currentStats.hphob)),
                 part_tot * g.hphob * g.hphil * (tot - part_tot))

\* ----------------------------------------------------------------- windows

\* jmax holds jmax * stepSize; the window loop runs with stepSize > 0.
JmaxIsInteger == jmax % params.stepSize = 0
J == jmax \div params.stepSize
\* i < imax, imax = qvartemp.length - 1 - jmax
WindowLoopTest == win * params.stepSize < (Len(qvartemp) - 1) * params.stepSize - jmax
\* qvartemp[i] and qvartemp[i + jmax] are elements of the array
WindowReadsDefined ==
    /\ JmaxIsInteger
    /\ win + 1 \in 1..Len(qvartemp)
    /\ win + J + 1 \in 1..Len(qvartemp)

\* The weight, in halves, of slice j of the window (lines 224-230).
Weight2(j) == IF j = 0 \/ j = J - 1 THEN 1 ELSE 2
WindowHphob ==
    SumSeq([j \in 1..Max(J, 0) |-> (Weight2(j - 1) * qvartemp[win + j].stats.hphob) \div 2])
WindowHphil ==
    SumSeq([j \in 1..Max(J, 0) |-> (Weight2(j - 1) * qvartemp[win + j].stats.hphil) \div 2])
WindowTotal ==
    SumSeq([j \in 1..Max(J, 0) |-> qvartemp[win + j].stats.total])

MembraneScored(spherePoint, c1, c2, stats, q, center) ==
    [planePoint1 |-> c1, planePoint2 |-> c2, stats |-> stats,
     normalVector |-> [from |-> spherePoint, to |-> center],
     spherePoint |-> spherePoint, center |-> center, qmax |-> q,
     \* history: where the window was found
     pass |-> pass, axis |-> axis, start |-> win, slices |-> J]

\* ------------------------------------------------------------------ actions

Init ==
    /\ structure \in Structures
    /\ params \in ParamSets
    /\ pc = "start"
    /\ outcome = "running"
    /\ offsets = <<>>
    /\ initialStats = HphobHphilOf(0, 0, 0)
    /\ pass = "initial"
    /\ spherePoints = <<>>
    /\ axis = 1
    /\ qvartemp = <<>>
    /\ t = 0
    /\ jmax = 0
    /\ width = 0
    /\ win = 0
    /\ qmax = Zero
    /\ membrane = Undefined
    /\ initialMembrane = Undefined
    /\ alternativeMembrane = Undefined
    \* no membrane selected yet
    /\ result = Undefined
    /\ scored = <<>>
    /\ positiveSeen = FALSE
    /\ jOffset = 0
    /\ sphere_pts2 = <<>>
    /\ cancelRequested = FALSE
    /\ axisAfterCancel = FALSE
    /\ UnitsConstructed

\* The caller asks for the task to be aborted.  calculate awaits nothing
\* between its first and its last statement, so a request reaches the runtime
\* only before the body of the task runs.
RequestCancel ==
    /\ pc = "start"
    /\ ~cancelRequested
    /\ cancelRequested' = TRUE
    /\ UNCHANGED << structure, params, pc, outcome, offsets, initialStats, pass,
                    spherePoints, axis, qvartemp, t, jmax, width, win, qmax, membrane,
                    initialMembrane, alternativeMembrane, result, scored, positiveSeen,
                    jOffset, sphere_pts2, axisAfterCancel, unitsVars >>

\* compute and the first loop of calculate: keep the protein CA atoms.
ExtractResidues ==
    /\ pc = "start"
    /\ offsets' = SelectSeq([k \in 1..Len(structure) |-> k], LAMBDA k : structure[k].ca)
    /\ pc' = "extracted"
    /\ UNCHANGED << structure, params, outcome, initialStats, pass, spherePoints, axis,
                    qvartemp, t, jmax, width, win, qmax, membrane, initialMembrane,
                    alternativeMembrane, result, scored, positiveSeen,
                    cancelRequested, axisAfterCancel, jOffset, sphere_pts2, unitsVars >>

\* Centroid, extent, the global statistics and the call of findMembrane on
\* the sphere points; findMembrane starts with no membrane and qmax = 0.
StartInitialScan ==
    /\ pc = "extracted"
    /\ initialStats' = filtered(NoFilter)
    /\ spherePoints' = generateSpherePoints(params.numberOfSpherePoints)
    /\ pass' = "initial"
    /\ membrane' = Undefined
    /\ qmax' = Zero
    /\ axis' = 1
    /\ scored' = <<>>
    /\ pc' = "axis"
    /\ UNCHANGED << structure, params, outcome, offsets, qvartemp, t, jmax, width, win,
                    initialMembrane, alternativeMembrane, result, positiveSeen,
                    cancelRequested, axisAfterCancel, jOffset, sphere_pts2, unitsVars >>

\* for (i < spherePoints.length): the next axis candidate.
BeginAxis ==
    /\ pc = "axis"
    /\ axis <= Len(spherePoints)
    /\ qvartemp' = <<>>
    /\ t' = 0
    /\ pc' = "slices"
    \* the runtime is not consulted
    /\ axisAfterCancel' = (axisAfterCancel \/ cancelRequested)
    /\ UNCHANGED << structure, params, outcome, offsets, initialStats, pass, spherePoints,
                    axis, jmax, width, win, qmax, membrane, initialMembrane,
                    alternativeMembrane, result, scored, positiveSeen,
                    cancelRequested, jOffset, sphere_pts2, unitsVars >>

\* i < diamNorm - stepSize; a NaN diamNorm makes it false.
SliceLoopTest ==
    /\ ~IsNaNPoint(spherePoints[axis])
    /\ t < diamNorm(spherePoints[axis]) - StepLen

\* One turn of the slice loop.
BuildSlice ==
    /\ pc = "slices"
    /\ SliceLoopTest
    /\ Len(qvartemp) < MaxSlices
    /\ qvartemp' = Append(qvartemp, Slice(spherePoints[axis]))
    /\ t' = t + StepLen
    /\ UNCHANGED << structure, params, pc, outcome, offsets, initialStats, pass,
                    spherePoints, axis, jmax, width, win, qmax, membrane,
                    initialMembrane, alternativeMembrane, result, scored, positiveSeen,
                    cancelRequested, axisAfterCancel, jOffset, sphere_pts2, unitsVars >>

\* jmax starting one slice short.
FirstJmaxOneShort == params.minThickness - 2 * params.stepSize

\* The first value of jmax, times stepSize: (minThickness / stepSize) - 1.
FirstJmax == params.minThickness - params.stepSize

\* The slice loop is left: jmax = (minThickness / stepSize) - 1, width = 0.
EndSlices ==
    /\ pc = "slices"
    /\ ~SliceLoopTest
    /\ params.stepSize # 0
    /\ jmax' = FirstJmax
    /\ width' = 0
    /\ pc' = "width"
    /\ UNCHANGED << structure, params, outcome, offsets, initialStats, pass, spherePoints,
                    axis, qvartemp, t, win, qmax, membrane, initialMembrane,
                    alternativeMembrane, result, scored, positiveSeen,
                    cancelRequested, axisAfterCancel, jOffset, sphere_pts2, unitsVars >>

\* The same with stepSize = 0: jmax is Infinity, imax is -Infinity, no window
\* is visited, width becomes Infinity * 0 = NaN and the width loop is left.
EndSlicesZeroStep ==
    /\ pc = "slices"
    /\ ~SliceLoopTest
    /\ params.stepSize = 0
    /\ axis' = axis + 1
    /\ pc' = "axis"
    /\ UNCHANGED << structure, params, outcome, offsets, initialStats, pass, spherePoints,
                    qvartemp, t, jmax, width, win, qmax, membrane, initialMembrane,
                    alternativeMembrane, result, scored, positiveSeen,
                    cancelRequested, axisAfterCancel, jOffset, sphere_pts2, unitsVars >>

\* width < maxThickness: the windows of jmax slices.
BeginWidth ==
    /\ pc = "width"
    /\ width < params.maxThickness
    /\ win' = 0
    /\ pc' = "window"
    /\ UNCHANGED << structure, params, outcome, offsets, initialStats, pass, spherePoints,
                    axis, qvartemp, t, jmax, width, qmax, membrane, initialMembrane,
                    alternativeMembrane, result, scored, positiveSeen,
                    cancelRequested, axisAfterCancel, jOffset, sphere_pts2, unitsVars >>

\* The width loop is left: the next axis candidate.
NextAxis ==
    /\ pc = "width"
    /\ ~(width < params.maxThickness)
    /\ axis' = axis + 1
    /\ pc' = "axis"
    /\ UNCHANGED << structure, params, outcome, offsets, initialStats, pass, spherePoints,
                    qvartemp, t, jmax, width, win, qmax, membrane, initialMembrane,
                    alternativeMembrane, result, scored, positiveSeen,
                    cancelRequested, axisAfterCancel, jOffset, sphere_pts2, unitsVars >>

\* The comparison with >= and with <.
BetterOrEqual(qvaltest, best) == Gt(qvaltest, best) \/ SameScore(qvaltest, best)
Worse(qvaltest, best) == Gt(best, qvaltest)

\* if (qvaltest > qmax)
Better(qvaltest, best) == Gt(qvaltest, best)
\* if (hphob !== 0)
IsScored(hphob) == hphob # 0

\* One turn of the window loop (lines 216-243).
ScoreWindow ==
    /\ pc = "window"
    /\ WindowLoopTest
    /\ WindowReadsDefined
    /\ LET c1 == qvartemp[win + 1].planePoint1
           c2 == qvartemp[win + J + 1].planePoint2
           stats == HphobHphilOf(WindowHphob, WindowHphil, WindowTotal)
           g == FloorAdjusted(initialStats)
           qvaltest == qValue(stats, g)
       IN  IF IsScored(stats.hphob)
           THEN /\ initialStats' = g
                /\ scored' = Append(scored,
                        [axis |-> axis, start |-> win, slices |-> J, stats |-> stats,
                         q |-> qvaltest,
                         best |-> IF Better(qvaltest, qmax) THEN qvaltest ELSE qmax])
                /\ positiveSeen' = (positiveSeen \/ Gt(qvaltest, Zero))
                /\ IF Better(qvaltest, qmax)
                   THEN /\ qmax' = qvaltest
                        /\ membrane' = MembraneScored(centroid, c1, c2, stats,
                                                      qvaltest, spherePoints[axis])
                   ELSE UNCHANGED << qmax, membrane >>
           ELSE UNCHANGED << initialStats, scored, positiveSeen, qmax, membrane >>
    /\ win' = win + 1
    /\ UNCHANGED << structure, params, pc, outcome, offsets, pass, spherePoints, axis,
                    qvartemp, t, jmax, width, initialMembrane, alternativeMembrane,
                    result,
                    cancelRequested, axisAfterCancel, jOffset, sphere_pts2, unitsVars >>

\* qvartemp[i] or qvartemp[i + jmax] is undefined (jmax is no integer, or the
\* index is outside the array): reading its planePoint throws.
WindowTypeError ==
    /\ pc = "window"
    /\ WindowLoopTest
    /\ ~WindowReadsDefined
    /\ outcome' = "TypeError"
    /\ pc' = "done"
    /\ UNCHANGED << structure, params, offsets, initialStats, pass, spherePoints, axis,
                    qvartemp, t, jmax, width, win, qmax, membrane, initialMembrane,
                    alternativeMembrane, result, scored, positiveSeen,
                    cancelRequested, axisAfterCancel, jOffset, sphere_pts2, unitsVars >>

\* The window loop is left: jmax++, width = (jmax + 1) * stepSize.
NextWidth == jmax + 2 * params.stepSize
EndWindows ==
    /\ pc = "window"
    /\ ~WindowLoopTest
    /\ jmax' = jmax + params.stepSize
    /\ width' = NextWidth
    /\ pc' = "width"
    /\ UNCHANGED << structure, params, outcome, offsets, initialStats, pass, spherePoints,
                    axis, qvartemp, t, win, qmax, membrane, initialMembrane,
                    alternativeMembrane, result, scored, positiveSeen,
                    cancelRequested, axisAfterCancel, jOffset, sphere_pts2, unitsVars >>

\* The axis loop is left: findMembrane returns membrane!.
EndScan ==
    /\ pc = "axis"
    /\ axis > Len(spherePoints)
    /\ pc' = "return"
    /\ UNCHANGED << structure, params, outcome, offsets, initialStats, pass, spherePoints,
                    axis, qvartemp, t, jmax, width, win, qmax, membrane, initialMembrane,
                    alternativeMembrane, result, scored, positiveSeen,
                    cancelRequested, axisAfterCancel, jOffset, sphere_pts2, unitsVars >>

\* Line 115: the first call has returned and findProximateAxes is called.
EnterProximate ==
    /\ pc = "return"
    /\ pass = "initial"
    /\ initialMembrane' = membrane
    /\ jOffset' = FirstJ
    /\ sphere_pts2' = <<>>
    /\ pc' = "proximate"
    /\ UNCHANGED << structure, params, outcome, offsets, initialStats, pass, spherePoints,
                    axis, qvartemp, t, jmax, width, win, qmax, membrane,
                    alternativeMembrane, result, scored, positiveSeen,
                    cancelRequested, axisAfterCancel, unitsVars >>

\* while (sphere_pts2.length < numberOfSpherePoints)
ProximateLoopTest == Len(sphere_pts2) < params.numberOfSpherePoints

\* A turn of the while loop begins: d, dsq and sphere_pts2 = [].
ProximateReset ==
    /\ pc = "proximate"
    /\ ProximateLoopTest
    /\ sphere_pts2' = <<>>
    /\ pc' = "sample"
    /\ UNCHANGED << structure, params, outcome, offsets, initialStats, pass,
                    spherePoints, axis, qvartemp, t, jmax, width, win, qmax, membrane,
                    initialMembrane, alternativeMembrane, result, scored, positiveSeen,
                    cancelRequested, axisAfterCancel, jOffset, unitsVars >>

\* The turn ends: the points within the threshold are pushed and j += 0.2.
\* When the whole sample is selected and is shorter than numberOfSpherePoints,
\* every later turn selects it again, whatever j: jOffset is held there (the
\* double j itself stops growing once 0.2 is below its precision), and the
\* turns repeat without end.
ProximateStep ==
    /\ pc = "sample"
    /\ sphere_pts2' = findProximateAxes(params.numberOfSpherePoints)
    /\ jOffset' =
           IF WithinThreshold(params.numberOfSpherePoints)
                  /\ ProximateSampleSize < params.numberOfSpherePoints
           THEN jOffset ELSE jOffset + 1
    /\ pc' = "proximate"
    /\ UNCHANGED << structure, params, outcome, offsets, initialStats, pass,
                    spherePoints, axis, qvartemp, t, jmax, width, win, qmax, membrane,
                    initialMembrane, alternativeMembrane, result, scored, positiveSeen,
                    cancelRequested, axisAfterCancel, unitsVars >>

\* findProximateAxes returns sphere_pts2 and the second call starts.
StartAlternativeScan ==
    /\ pc = "proximate"
    /\ ~ProximateLoopTest
    /\ spherePoints' = sphere_pts2
    /\ pass' = "alternative"
    /\ membrane' = Undefined
    /\ qmax' = Zero
    /\ axis' = 1
    /\ scored' = <<>>
    /\ pc' = "axis"
    /\ UNCHANGED << structure, params, outcome, offsets, initialStats, qvartemp, t, jmax,
                    width, win, initialMembrane, alternativeMembrane, result,
                    positiveSeen, cancelRequested, axisAfterCancel, jOffset, sphere_pts2, unitsVars >>

\* The second call has returned.
ReturnAlternative ==
    /\ pc = "return"
    /\ pass = "alternative"
    /\ alternativeMembrane' = membrane
    /\ pc' = "select"
    /\ UNCHANGED << structure, params, outcome, offsets, initialStats, pass, spherePoints,
                    axis, qvartemp, t, jmax, width, win, qmax, membrane, initialMembrane,
                    result, scored, positiveSeen,
                    cancelRequested, axisAfterCancel, jOffset, sphere_pts2, unitsVars >>

\* The selection with ties going to the initial candidate.
SelectedInitialOnTie(initial, alternative) ==
    IF Gt(alternative.qmax, initial.qmax) THEN alternative ELSE initial

\* initialMembrane.qmax! > alternativeMembrane.qmax! ? initialMembrane : alternativeMembrane
Selected(initial, alternative) ==
    IF Gt(initial.qmax, alternative.qmax) THEN initial ELSE alternative

\* Line 118 and createMembraneLayers: the task resolves with a Topology.
SelectMembrane ==
    /\ pc = "select"
    /\ initialMembrane # Undefined
    /\ alternativeMembrane # Undefined
    /\ result' = Selected(initialMembrane, alternativeMembrane)
    /\ outcome' = "Topology"
    /\ pc' = "done"
    /\ UNCHANGED << structure, params, offsets, initialStats, pass, spherePoints, axis,
                    qvartemp, t, jmax, width, win, qmax, membrane, initialMembrane,
                    alternativeMembrane, scored, positiveSeen,
                    cancelRequested, axisAfterCancel, jOffset, sphere_pts2, unitsVars >>

\* Line 118 reads qmax of an undefined membrane: the task fails with a TypeError.
SelectTypeError ==
    /\ pc = "select"
    /\ initialMembrane = Undefined \/ alternativeMembrane = Undefined
    /\ outcome' = "TypeError"
    /\ pc' = "done"
    /\ UNCHANGED << structure, params, offsets, initialStats, pass, spherePoints, axis,
                    qvartemp, t, jmax, width, win, qmax, membrane, initialMembrane,
                    alternativeMembrane, result, scored, positiveSeen,
                    cancelRequested, axisAfterCancel, jOffset, sphere_pts2, unitsVars >>

Next ==
    \/ ExtractResidues
    \/ StartInitialScan
    \/ BeginAxis
    \/ BuildSlice
    \/ EndSlices
    \/ EndSlicesZeroStep
    \/ BeginWidth
    \/ NextAxis
    \/ ScoreWindow
    \/ WindowTypeError
    \/ EndWindows
    \/ EndScan
    \/ EnterProximate
    \/ ProximateReset
    \/ ProximateStep
    \/ StartAlternativeScan
    \/ ReturnAlternative
    \/ SelectMembrane
    \/ SelectTypeError

Spec == Init /\ [][Next]_vars

\* The task with fair scheduling: a step that can be taken is taken.
SpecLive == Init /\ [][Next]_vars /\ WF_vars(Next)

\* The task with a caller that may ask for it to be aborted.
NextCancel ==
    \/ RequestCancel
    \/ Next
SpecCancel == Init /\ [][NextCancel]_vars

\* ----------------------------------------------------- UnitsRepresentation

\* createOrUpdate is called and its task is run.
CanCall == upc = "idle" /\ calls < MaxCalls

\* if (!_structure && !structure) throw new Error('missing structure')
MissingStructure ==
    /\ CanCall
    /\ _structure = NoStructure
    /\ newStructure' = NoStructure
    /\ task' = "rejected"
    /\ branch' = "missing"
    /\ calls' = calls + 1
    /\ before' = [visuals |-> visuals, nextVisual |-> nextVisual]
    /\ UNCHANGED << visuals, _structure, _groups, oldVisuals, upc, groupIndex, awaited,
                    detached, destroyed, nextVisual, unreported, anvilVars >>

\* else if (structure && !_structure): first call with a structure.
BeginFirst ==
    /\ CanCall
    /\ _structure = NoStructure
    /\ \E s \in UnitStructures :
          /\ newStructure' = s
          /\ _groups' = s.unitSymmetryGroups
    /\ groupIndex' = 1
    /\ upc' = "loop"
    /\ task' = "running"
    /\ branch' = "first"
    /\ calls' = calls + 1
    /\ before' = [visuals |-> visuals, nextVisual |-> nextVisual]
    /\ UNCHANGED << visuals, _structure, oldVisuals, awaited, detached, destroyed,
                    nextVisual, unreported, anvilVars >>

\* else if (structure && _structure.hashCode !== structure.hashCode)
BeginDiffer ==
    /\ CanCall
    /\ _structure # NoStructure
    /\ \E s \in UnitStructures :
          /\ s.hashCode # _structure.hashCode
          /\ newStructure' = s
          /\ _groups' = s.unitSymmetryGroups
    /\ oldVisuals' = visuals
    /\ visuals' = EmptyMap
    /\ groupIndex' = 1
    /\ upc' = "loop"
    /\ task' = "running"
    /\ branch' = "differ"
    /\ calls' = calls + 1
    /\ before' = [visuals |-> visuals, nextVisual |-> nextVisual]
    /\ UNCHANGED << _structure, awaited, detached, destroyed, nextVisual, unreported,
                    anvilVars >>

\* else if (structure && _structure.hashCode === structure.hashCode)
BeginSame ==
    /\ CanCall
    /\ _structure # NoStructure
    /\ \E s \in UnitStructures :
          /\ s.hashCode = _structure.hashCode
          /\ newStructure' = s
          /\ _groups' = s.unitSymmetryGroups
    /\ groupIndex' = 1
    /\ upc' = "loop"
    /\ task' = "running"
    /\ branch' = "same"
    /\ calls' = calls + 1
    /\ before' = [visuals |-> visuals, nextVisual |-> nextVisual]
    /\ UNCHANGED << visuals, _structure, oldVisuals, awaited, detached, destroyed,
                    nextVisual, unreported, anvilVars >>

\* else: no structure given.  forEach calls the async callback for every
\* visual, which starts visual.createOrUpdate and returns a promise forEach
\* drops; the task then resolves.
PropsOnly ==
    /\ CanCall
    /\ _structure # NoStructure
    /\ newStructure' = NoStructure
    /\ detached' = detached \cup
            { [call |-> calls + 1, visual |-> v] : v \in VisualsOf(visuals) }
    /\ task' = "resolved"
    /\ branch' = "props"
    /\ calls' = calls + 1
    /\ before' = [visuals |-> visuals, nextVisual |-> nextVisual]
    /\ UNCHANGED << visuals, _structure, _groups, oldVisuals, upc, groupIndex, awaited,
                    destroyed, nextVisual, unreported, anvilVars >>

\* The visual of the next group: a new one in the first branch, the one
\* oldVisuals holds for the hashCode or a new one in the second branch, the
\* one visuals holds in the third, 0 when it holds none.
VisualFor(group) ==
    IF branch = "first" THEN nextVisual
    ELSE IF branch = "differ"
    THEN IF group.hashCode \in DOMAIN oldVisuals
         THEN oldVisuals[group.hashCode].visual ELSE nextVisual
    ELSE IF group.hashCode \in DOMAIN visuals
         THEN visuals[group.hashCode].visual ELSE 0

\* One turn of the loop over _groups up to its await:
\* visual.createOrUpdate(ctx, _props, group) is started.
StartVisualUpdate ==
    /\ upc = "loop"
    /\ groupIndex <= Len(_groups)
    /\ VisualFor(_groups[groupIndex]) # 0
    /\ awaited' = VisualFor(_groups[groupIndex])
    /\ nextVisual' = IF awaited' = nextVisual THEN nextVisual + 1 ELSE nextVisual
    /\ upc' = "await"
    /\ UNCHANGED << visuals, _structure, _groups, newStructure, oldVisuals, groupIndex,
                    detached, destroyed, task, branch, calls, unreported, before,
                    anvilVars >>

\* throw new Error(`expected to find visual for hashCode ...`)
ExpectedVisualMissing ==
    /\ upc = "loop"
    /\ groupIndex <= Len(_groups)
    /\ VisualFor(_groups[groupIndex]) = 0
    /\ task' = "rejected"
    /\ upc' = "idle"
    /\ UNCHANGED << visuals, _structure, _groups, newStructure, oldVisuals, groupIndex,
                    awaited, detached, destroyed, nextVisual, branch, calls, unreported,
                    before, anvilVars >>

\* The awaited update completes and the turn of the loop ends.
AwaitedDone ==
    /\ upc = "await"
    /\ LET group == _groups[groupIndex]
           h == group.hashCode
       IN  IF branch = "same"
           THEN /\ visuals' = [visuals EXCEPT ![h].group = group]
                /\ UNCHANGED oldVisuals
           ELSE /\ visuals' = MapSet(visuals, h, [visual |-> awaited, group |-> group])
                /\ oldVisuals' =
                       IF branch = "differ" /\ h \in DOMAIN oldVisuals
                       THEN MapDelete(oldVisuals, h) ELSE oldVisuals
    /\ groupIndex' = groupIndex + 1
    /\ awaited' = 0
    /\ upc' = "loop"
    /\ UNCHANGED << _structure, _groups, newStructure, detached, destroyed, nextVisual,
                    task, branch, calls, unreported, before, anvilVars >>

\* The awaited update fails: the await throws and the task is rejected.
AwaitedFailed ==
    /\ upc = "await"
    /\ awaited' = 0
    /\ task' = "rejected"
    /\ upc' = "idle"
    /\ UNCHANGED << visuals, _structure, _groups, newStructure, oldVisuals, groupIndex,
                    detached, destroyed, nextVisual, branch, calls, unreported, before,
                    anvilVars >>

\* The loop is left: oldVisuals.forEach(destroy) in the second branch,
\* _structure = structure, and the task resolves.
FinishTask ==
    /\ upc = "loop"
    /\ groupIndex > Len(_groups)
    /\ destroyed' =
           [v \in Visuals |->
               IF branch = "differ" /\ v \in VisualsOf(oldVisuals)
               THEN destroyed[v] + 1 ELSE destroyed[v]]
    /\ _structure' = newStructure
    /\ task' = "resolved"
    /\ upc' = "idle"
    /\ UNCHANGED << visuals, _groups, newStructure, oldVisuals, groupIndex, awaited,
                    detached, nextVisual, branch, calls, unreported, before, anvilVars >>

\* An update nobody awaits completes.
DetachedDone ==
    /\ \E d \in detached : detached' = detached \ {d}
    /\ UNCHANGED << visuals, _structure, _groups, newStructure, oldVisuals, upc,
                    groupIndex, awaited, destroyed, nextVisual, task, branch, calls,
                    unreported, before, anvilVars >>

\* An update nobody awaits fails: the promise of the callback is rejected and
\* nothing holds it.
DetachedFailed ==
    /\ \E d \in detached :
          /\ detached' = detached \ {d}
          /\ unreported' = unreported \cup {d.call}
    /\ UNCHANGED << visuals, _structure, _groups, newStructure, oldVisuals, upc,
                    groupIndex, awaited, destroyed, nextVisual, task, branch, calls,
                    before, anvilVars >>

\* destroy(): every visual of the map is destroyed and the map is cleared.
Destroy ==
    /\ CanCall
    /\ destroyed' =
           [v \in Visuals |->
               IF v \in VisualsOf(visuals) THEN destroyed[v] + 1 ELSE destroyed[v]]
    /\ visuals' = EmptyMap
    /\ task' = "none"
    /\ branch' = "none"
    /\ calls' = calls + 1
    /\ UNCHANGED << _structure, _groups, newStructure, oldVisuals, upc, groupIndex,
                    awaited, detached, nextVisual, unreported, before, anvilVars >>

NextUnits ==
    \/ MissingStructure
    \/ BeginFirst
    \/ BeginDiffer
    \/ BeginSame
    \/ PropsOnly
    \/ StartVisualUpdate
    \/ ExpectedVisualMissing
    \/ AwaitedDone
    \/ AwaitedFailed
    \/ FinishTask
    \/ DetachedDone
    \/ DetachedFailed
    \/ Destroy

\* A UnitsRepresentation and its callers; no membrane computation runs.
InitUnits == Init /\ structure = <<>> /\ params = DefaultParams
SpecUnits == InitUnits /\ [][NextUnits]_vars

\* ------------------------------------------------------------------ claims

NoQualifyingResidue == \A k \in 1..Len(structure) : ~structure[k].ca
\* Both findMembrane calls have run to their end.
SearchCompleted == pass = "alternative" /\ axis > Len(spherePoints) /\ pc \in {"select", "done"}

\* C1: a structure without any protein alpha-carbon ends in InvalidInputError,
\* never in another error and never in a normal result.
C1_EmptyInputIsInvalidInput ==
    (NoQualifyingResidue /\ ~BadConfig(params))
        => /\ outcome \in {"running", "InvalidInputError"}
           /\ (pc = "done" => outcome = "InvalidInputError")

\* C2: when the search completes without any window scoring above zero, the
\* task ends in NoMembraneFoundError, and no undefined candidate reaches the
\* selector.
C2_NoMembraneIsReported ==
    (~BadConfig(params) /\ ~NoQualifyingResidue)
        => /\ (pc = "select" => initialMembrane # Undefined /\ alternativeMembrane # Undefined)
           /\ (pc = "done" /\ SearchCompleted /\ ~positiveSeen
                  => outcome = "NoMembraneFoundError")

\* C3: an invalid configuration is rejected with ConfigurationError before
\* any scanning: the slice loop is never entered and no Topology is returned.
C3_BadConfigIsRejected ==
    BadConfig(params)
        => /\ pc \notin {"axis", "slices", "width", "window", "return", "select"}
           /\ (pc = "done" => outcome = "ConfigurationError")

Resolved == pc = "done" /\ outcome = "Topology"

\* C4: the selector returns the candidate with the strictly higher score,
\* and the initial-pass candidate when the two scores are equal.
C4_TiesFavourInitial ==
    (Resolved /\ ~BadConfig(params))
        => result = IF Gt(alternativeMembrane.qmax, initialMembrane.qmax)
                    THEN alternativeMembrane ELSE initialMembrane

\* C4 as amended: the selector returns the initial-pass candidate when its
\* score is strictly higher, and the refined-pass candidate otherwise, also
\* when the two scores are equal.
C4_TiesFavourAlternative ==
    Resolved
        => /\ result.pass \in {"initial", "alternative"}
           /\ result.pass = "initial"
                  <=> initialMembrane.qmax.n * alternativeMembrane.qmax.d
                          > alternativeMembrane.qmax.n * initialMembrane.qmax.d
           /\ result.pass = "initial" => result = initialMembrane
           /\ result.pass = "alternative" => result = alternativeMembrane

\* The two calls return candidates of equal score and the task resolves.
C4_TieSelected ==
    /\ Resolved
    /\ ~BadConfig(params)
    /\ SameScore(initialMembrane.qmax, alternativeMembrane.qmax)
    /\ result.pass = "alternative"

\* The candidates findMembrane has recorded and not yet dropped.
Recorded == {membrane, initialMembrane, alternativeMembrane, result} \ {Undefined}
\* The slab width of a candidate, times LenScale.
SlabWidth(c) == c.planePoint2 - c.planePoint1

\* C5: with stepSize > 0 and minThickness < maxThickness, the slab width of
\* every recorded candidate is a whole number of slices times stepSize and
\* lies in [minThickness, maxThickness], also when minThickness is not a
\* multiple of stepSize.
C5_SlabWidthInRange ==
    (params.stepSize > 0 /\ params.minThickness < params.maxThickness)
        => \A c \in Recorded :
              /\ SlabWidth(c) % StepLen = 0
              /\ SlabWidth(c) = (c.slices + 1) * StepLen
              /\ LenScale * params.minThickness <= SlabWidth(c)
              /\ SlabWidth(c) <= LenScale * params.maxThickness

\* A candidate wider than minThickness is recorded under a valid configuration.
C5_CandidateRecorded ==
    /\ params.stepSize > 0 /\ params.minThickness < params.maxThickness
    /\ membrane # Undefined
    /\ SlabWidth(membrane) > LenScale * params.minThickness

Scanning == pc \in {"axis", "slices", "width", "window", "return"}


\* C6: during a findMembrane call the running qmax never decreases and is
\* the maximum of 0 and the scores of the windows scored so far; the
\* candidate's qmax field is that maximum.
C6_QmaxIsRunningMaximum ==
    Scanning
        => /\ \A k \in 1..Len(scored) : ~Gt(scored[k].q, qmax)
           /\ qmax = Zero \/ \E k \in 1..Len(scored) : scored[k].q = qmax
           /\ \A k \in 1..(Len(scored) - 1) : ~Gt(scored[k].best, scored[k + 1].best)
           /\ scored # <<>> => scored[Len(scored)].best = qmax
           /\ membrane = Undefined => qmax = Zero
           /\ membrane # Undefined => membrane.qmax = qmax

\* A call returns after its maximum was raised by a later, better window.
C6_MaximumRaisedTwice ==
    /\ pc = "return"
    /\ \E k \in 1..Len(scored) : \E l \in 1..Len(scored) :
          /\ k < l
          /\ Gt(scored[k].q, Zero)
          /\ Gt(scored[l].q, scored[k].q)
          /\ Gt(qmax, scored[k].q)
    /\ \E k \in 1..Len(scored) : Gt(qmax, scored[k].q) /\ scored[k].best = qmax

\* The global reference counts over all exposed residues, read from the
\* structure, with the floor adjustments, in tenths.
ExposedOfClass(h) ==
    Cardinality({ k \in 1..Len(structure) :
        structure[k].ca /\ structure[k].exposed /\ structure[k].hydrophobic = h })
GHphob == IF ExposedOfClass(TRUE) < 1 THEN 1 ELSE 10 * ExposedOfClass(TRUE)
GHphil ==
    IF ExposedOfClass(FALSE) < 1 THEN 10 * (ExposedOfClass(FALSE) + 1)
    ELSE 10 * ExposedOfClass(FALSE)
\* The trapezoidally weighted sum, in tenths, of the counts cnt[1..n].
RECURSIVE Trapezoid(_, _)
Trapezoid(cnt, k) ==
    IF k = 0 THEN 0
    ELSE (IF k = 1 \/ k = Len(cnt) THEN 5 ELSE 10) * cnt[k] + Trapezoid(cnt, k - 1)
\* The slices of scored window w, on the current axis.
WindowCounts(w, class) ==
    [j \in 1..w.slices |->
        Cardinality({ k \in 1..Count :
            /\ structure[offsets[k]].exposed
            /\ structure[offsets[k]].hydrophobic = class
            /\ isInMembranePlane(k, spherePoints[axis],
                                 (w.start + j - 1) * StepLen, (w.start + j) * StepLen) })]
\* Q of the closed form, for weighted sums H, L and T = H + L.
ClosedForm(H, L) ==
    Fraction(100 * (H * (GHphil - L) - L * (GHphob - H)),
             (H + L) * GHphob * GHphil * (GHphob + GHphil - (H + L)))
\* The window scored last, while its axis is still the current one: every
\* scored window is that window in the state its scoring leads to.
ScoredOnAxis ==
    IF pc \in {"window", "width"} /\ scored # <<>> /\ scored[Len(scored)].axis = axis
    THEN {Len(scored)}
    ELSE {}

\* C7: the score of every scored window is the closed form over the window's
\* trapezoidally weighted sums and the floor-adjusted global counts, and a
\* window whose hydrophobic sum is zero is never scored.
C7_ScoreIsClosedForm ==
    \A k \in ScoredOnAxis :
        LET w == scored[k]
            hphob == WindowCounts(w, TRUE)
            hphil == WindowCounts(w, FALSE)
            H == Trapezoid(hphob, Len(hphob))
            L == Trapezoid(hphil, Len(hphil))
            Q == ClosedForm(H, L)
        IN  /\ H # 0
            /\ w.q = Q

\* A window with interior slices and both classes of residues is scored.
C7_InteriorWindowScored ==
    \E k \in ScoredOnAxis :
        /\ scored[k].slices >= 3
        /\ scored[k].stats.hphil # 0
        /\ scored[k].q.d # 0
        /\ scored[k].q.n # 0

\* C8: whenever qValue is evaluated, its denominator is strictly positive.
C8_DenominatorPositive ==
    ~BadConfig(params) => \A k \in 1..Len(scored) : scored[k].q.d > 0

\* C9: evaluating axis candidates leaves the global reference statistics as
\* they were computed from the structure.
C9_InitialStatsUnchanged ==
    (~BadConfig(params) /\ pc \notin {"start", "extracted"})
        => initialStats = HphobHphilOf(Tenths(ExposedOfClass(TRUE)),
                                       Tenths(ExposedOfClass(FALSE)), 0)

\* The windows of the current call that attain the maximal score.
Maximal == { k \in 1..Len(scored) : SameScore(scored[k].q, qmax) }
Returned == pc = "return" /\ membrane # Undefined

\* C10: among the windows attaining the maximal score the returned candidate
\* is the one of the smallest axis index and, on that axis, of the smallest
\* window start index, whatever its width.
C10_FirstByAxisThenStart ==
    (Returned /\ ~BadConfig(params))
        => \A k \in Maximal :
              \/ membrane.axis < scored[k].axis
              \/ membrane.axis = scored[k].axis /\ membrane.start <= scored[k].start

\* C10 as amended: the returned candidate is the one of the smallest axis
\* index, on that axis of the smallest width, and for that width of the
\* smallest window start index.
C10_FirstByAxisWidthStart ==
    Returned
        => /\ \E k \in Maximal :
                 /\ membrane.axis = scored[k].axis
                 /\ membrane.slices = scored[k].slices
                 /\ membrane.start = scored[k].start
           /\ \A k \in Maximal :
                 \/ membrane.axis < scored[k].axis
                 \/ /\ membrane.axis = scored[k].axis
                    /\ membrane.slices < scored[k].slices
                 \/ /\ membrane.axis = scored[k].axis
                    /\ membrane.slices = scored[k].slices
                    /\ membrane.start <= scored[k].start

\* A wider window starting earlier on the same axis ties with the returned one.
C10_WiderWindowTiesEarlier ==
    /\ Returned
    /\ ~BadConfig(params)
    /\ \E k \in Maximal :
          /\ scored[k].axis = membrane.axis
          /\ scored[k].slices > membrane.slices
          /\ scored[k].start < membrane.start

\* The candidate of the current call, while its axis candidates are at hand.
Candidate == IF Scanning /\ membrane # Undefined THEN {membrane} ELSE {}

\* C11: the recorded candidate's normal vector points from the centroid to
\* the axis candidate of the winning window, its spherePoint field is that
\* axis candidate and its center field is the centroid.
C11_CandidateNamesItsAxis ==
    ~BadConfig(params)
        => \A c \in Candidate :
              /\ c.normalVector = [from |-> centroid, to |-> spherePoints[c.axis]]
              /\ c.spherePoint = spherePoints[c.axis]
              /\ c.center = centroid

\* The trapezoidally weighted sum, in tenths, of field f of the slices
\* start + 1 .. start + n of the current axis.
WeightedSum(start, n, f) ==
    LET cnt == [j \in 1..n |-> qvartemp[start + j].stats[f] \div 10]
    IN  Trapezoid(cnt, n)

\* C12: the hydrophobic, hydrophilic and total statistics of every window,
\* as scored and as stored on the candidate, are the trapezoidally weighted
\* sums over the window's slices.
C12_AllStatisticsWeighted ==
    ~BadConfig(params)
        => /\ \A k \in ScoredOnAxis :
                 \A f \in {"hphob", "hphil", "total"} :
                     scored[k].stats[f] = WeightedSum(scored[k].start, scored[k].slices, f)
           /\ \A c \in Candidate :
                 (c.axis = axis /\ pc \in {"window", "width"})
                     => \A f \in {"hphob", "hphil", "total"} :
                            c.stats[f] = WeightedSum(c.start, c.slices, f)

\* C13: a request to cancel is observed at the next axis-candidate boundary at
\* the latest: no axis candidate is begun once it is requested, and the task
\* ends cancelled, neither with a Topology nor with a failure.
C13_CancelObservedAtAxis ==
    /\ ~axisAfterCancel
    /\ (cancelRequested /\ pc = "done") => outcome = "Cancelled"

\* The sample, the threshold and the points findProximateAxes has returned.
ProximateReturned ==
    /\ pc = "axis" /\ pass = "alternative"
    /\ Len(spherePoints) >= params.numberOfSpherePoints
    /\ \A k \in 1..Len(spherePoints) :
          \E i \in 1..ProximateSampleSize :
              spherePoints[k] = generateSpherePoints(ProximateSampleSize)[i]
    /\ jOffset > FirstJ

\* extent > 0: two residues lie at different places.
PositiveExtent ==
    \E a \in 1..Len(structure) : \E b \in 1..Len(structure) :
        structure[a].ca /\ structure[b].ca /\ structure[a].y # structure[b].y

\* C14: for numberOfSpherePoints >= 2 and extent > 0 findProximateAxes
\* terminates and returns at least numberOfSpherePoints points of the sample,
\* also when numberOfSpherePoints is larger than the sample.
C14_ProximateAxesTerminates ==
    (pc = "proximate" /\ ~BadConfig(params) /\ PositiveExtent) ~> ProximateReturned

\* The samples, read from the structure: the protein alpha-carbons.
Samples == { a \in 1..Len(structure) : structure[a].ca }
\* (y - centroid_y) of every sample, times the number of samples.
Offcentre ==
    LET sum == SumSeq([b \in 1..Len(structure) |->
                          IF structure[b].ca THEN structure[b].y ELSE 0])
    IN  [a \in Samples |-> Cardinality(Samples) * structure[a].y - sum]
\* The signed projection of every sample on the diameter of axis candidate p,
\* measured from the axis candidate, times p.hd * LenScale.
Projection(p) ==
    LET off == Offcentre
        radius == CHOOSE r \in { Abs(off[b]) : b \in Samples } :
                      \A b \in Samples : Abs(off[b]) <= r
    IN  [a \in Samples |-> p.hd * 6 * radius - p.hn * 5 * off[a]]
\* A sample of projection d lies strictly between the boundary points of
\* slice s.
InSlice(d, s) ==
    LET hd == spherePoints[axis].hd
        lo == Min(qvartemp[s].planePoint1, qvartemp[s].planePoint2)
        hi == Max(qvartemp[s].planePoint1, qvartemp[s].planePoint2)
    IN  hd * lo < d /\ d < hd * hi
\* A sample of projection d lies on the boundary shared by slices s and s + 1.
OnSharedBoundary(d, s) ==
    /\ s \in 1..(Len(qvartemp) - 1)
    /\ d = spherePoints[axis].hd * qvartemp[s].planePoint2
\* The slices holding exposed sample a, of projection d, in one of their
\* counts.
CountedIn(a, d) ==
    { s \in 1..Len(qvartemp) :
        /\ structure[a].exposed
        /\ InSlice(d, s)
        /\ qvartemp[s].stats[IF structure[a].hydrophobic THEN "hphob" ELSE "hphil"] > 0 }
\* The slices of the current axis candidate are built: the slice loop is
\* just left, and qvartemp is not written again for this axis candidate.
SlicesBuilt == pc = "width" /\ width = 0

\* C15: the counts of every slice are the numbers of exposed samples of the
\* class whose projection lies strictly between the projections of the
\* slice's boundary points: no buried sample is counted, an exposed sample is
\* counted in at most one slice, and a sample on a boundary shared by two
\* slices is counted in neither.
C15_SliceCountsStrictlyInside ==
    SlicesBuilt
        => LET proj == Projection(spherePoints[axis])
           IN  /\ \A s \in 1..Len(qvartemp) : \A h \in BOOLEAN :
                     qvartemp[s].stats[IF h THEN "hphob" ELSE "hphil"]
                         = Tenths(Cardinality({ a \in Samples :
                               /\ structure[a].exposed
                               /\ structure[a].hydrophobic = h
                               /\ InSlice(proj[a], s) }))
               /\ SumSeq([s \in 1..Len(qvartemp) |->
                             qvartemp[s].stats.hphob + qvartemp[s].stats.hphil])
                     <= Tenths(Cardinality({ a \in Samples : structure[a].exposed }))
               /\ \A a \in Samples :
                     /\ Cardinality(CountedIn(a, proj[a])) <= 1
                     /\ \A s \in 1..Len(qvartemp) :
                            OnSharedBoundary(proj[a], s) => CountedIn(a, proj[a]) = {}

\* The slices of an axis candidate are built with an exposed hydrophobic
\* sample on the boundary shared by two of them, and a candidate was recorded
\* on an earlier axis candidate, where the sample lay inside a slice.
C15_SampleOnSharedBoundary ==
    /\ SlicesBuilt
    /\ ~BadConfig(params)
    /\ membrane # Undefined
    /\ \E a \in Samples : \E s \in 1..Len(qvartemp) :
          /\ structure[a].exposed /\ structure[a].hydrophobic
          /\ OnSharedBoundary(Projection(spherePoints[axis])[a], s)

\* The slices summed for candidate c and the slices lying between its
\* recorded boundary points, as indices from 0.
SummedSlices(c) == { c.start + i : i \in 0..(c.slices - 1) }
SlabSlices(c) ==
    { i \in 0..MaxSlices :
        /\ c.planePoint1 <= i * StepLen
        /\ (i + 1) * StepLen <= c.planePoint2 }

\* C16: the slices summed for the score of a recorded candidate are exactly
\* the slices between its planePoint1 and planePoint2, and every slice read
\* while sliding the window is an element of the slice sequence.
C16_ScoredSlicesAreTheSlab ==
    ~BadConfig(params)
        => /\ \A c \in Recorded : SummedSlices(c) = SlabSlices(c)
           /\ (pc = "window" /\ WindowLoopTest) => WindowReadsDefined

\* The task created last has completed, in the branch of a structure whose
\* hashCode differs from the current one.
DifferCompleted == upc = "idle" /\ task = "resolved" /\ branch = "differ"
\* The visuals the task created.
CreatedByTask == { v \in Visuals : before.nextVisual <= v /\ v < nextVisual }

\* C17: after createOrUpdate completes for a structure of another hashCode,
\* the map holds one visual for every unit symmetry group of the new
\* structure, the visual of a hashCode that existed before is reused, and
\* every visual that existed before or was created and is not in the map has
\* been destroyed exactly once.
C17_VisualsFollowGroups ==
    DifferCompleted
        => /\ \A k \in 1..Len(_groups) :
                 \E h \in DOMAIN visuals : visuals[h].group = _groups[k]
           /\ Cardinality(VisualsOf(visuals)) = Len(_groups)
           /\ \A h \in (DOMAIN visuals) \cap (DOMAIN before.visuals) :
                 visuals[h].visual = before.visuals[h].visual
           /\ \A v \in VisualsOf(before.visuals) \cup CreatedByTask :
                 v \notin VisualsOf(visuals) => destroyed[v] = 1
           /\ \A v \in Visuals : destroyed[v] <= 1

\* C18: when the task of createOrUpdate has resolved, no visual update it
\* started is still in flight and none of them has failed unreported.
C18_NoUpdateOutlivesTask ==
    (upc = "idle" /\ task = "resolved")
        => /\ \A d \in detached : d.call # calls
           /\ calls \notin unreported
=============================================================================
